---- MODULE Spec2Model ----
(***************************************************************************)
(* lineup2spotify: create_spotify_playlist.py.                             *)
(*                                                                         *)
(* A Python str is modelled as a sequence of tokens; a token is a TLA+     *)
(* string standing for one character or for one indivisible piece of text  *)
(* (a hint text, an artist link, a "(n)" suffix).  A markdown file is the  *)
(* sequence of its lines.                                                  *)
(***************************************************************************)
EXTENDS Integers, Sequences, FiniteSets, TLC

\* ------------------------------------------------------------------ bounds
MaxLines == 2
MaxAnnotations == 2
MaxPlaylists == 1
MaxEnvChanges == 2
MaxChunkTracks == 3
MaxChunkSize == 3
TrackPageSize == 2

\* ------------------------------------------------------- program constants
PageLimit == 50
ReplaceCap == 100
CoverMaxBytes == 262144

\* ------------------------------------------------------------------- text
SP == " "
DASH == "-"

IsSpace(t) == t = SP

\* A sequence defined by index, enumerated.
Tuple(f) == SubSeq(f, 1, Len(f))

\* The value of a one-element set.
The(S) == CHOOSE x \in S : TRUE

ToSet(s) == {s[k] : k \in 1..Len(s)}

RECURSIVE rstrip(_)
rstrip(s) ==
  IF s # <<>> /\ IsSpace(s[Len(s)]) THEN rstrip(SubSeq(s, 1, Len(s) - 1)) ELSE s

RECURSIVE lstrip(_)
lstrip(s) == IF s # <<>> /\ IsSpace(s[1]) THEN lstrip(Tail(s)) ELSE s

endswith(s, suffix) ==
  /\ Len(suffix) <= Len(s)
  /\ SubSeq(s, Len(s) - Len(suffix) + 1, Len(s)) = suffix

RECURSIVE CountLeadingSpaces(_)
CountLeadingSpaces(s) ==
  IF s # <<>> /\ IsSpace(s[1]) THEN 1 + CountLeadingSpaces(Tail(s)) ELSE 0

\* The default hint texts of main (lines 319-320), each one token.
not_found_hint == <<"_(not added: no exact Spotify artist match)_">>
skipped_hint == <<"_(not added: intentionally skipped)_">>

\* Artist profile URLs as the catalog returns them; "" is a missing URL.
ArtistUrls ==
  {"https://open.spotify.com/artist/a1", "https://open.spotify.com/artist/a2"}

LinkToken(url) == "[spotify](" \o url \o ")"

\* The text matched by \[spotify\]\(https://open\.spotify\.com/artist/[a-zA-Z0-9]+\)
IsArtistLink(t) == \E u \in ArtistUrls : t = LinkToken(u)

\* The "(n)" suffix of a band entry, n = 0, 1, 2.
OverrideTokens == <<"(0)", "(1)", "(2)">>
IsOverride(t) == \E k \in 1..Len(OverrideTokens) : t = OverrideTokens[k]
OverrideValue(t) == (CHOOSE k \in 1..Len(OverrideTokens) : t = OverrideTokens[k]) - 1

\* strip_status_hints: at most one hint is stripped, the not-found hint first.
StripHint(name, hint) ==
  IF hint # <<>> /\ endswith(name, <<SP>> \o hint)
  THEN [hit |-> TRUE, out |-> rstrip(SubSeq(name, 1, Len(name) - Len(hint) - 1))]
  ELSE IF hint # <<>> /\ endswith(name, hint)
  THEN [hit |-> TRUE, out |-> rstrip(SubSeq(name, 1, Len(name) - Len(hint)))]
  ELSE [hit |-> FALSE, out |-> name]

strip_status_hints(name, nf_hint, sk_hint) ==
  IF StripHint(name, nf_hint).hit THEN StripHint(name, nf_hint).out
  ELSE StripHint(name, sk_hint).out

\* re.sub(r"\s*<artist link>", "", name): every link goes, with the
\* whitespace in front of it.
RECURSIVE SubLinks(_, _)
SubLinks(acc, rest) ==
  IF rest = <<>> THEN acc
  ELSE IF IsArtistLink(Head(rest)) THEN SubLinks(rstrip(acc), Tail(rest))
  ELSE SubLinks(Append(acc, Head(rest)), Tail(rest))

strip_spotify_link(name) == rstrip(SubLinks(<<>>, name))

format_hint(hint) == IF hint # <<>> THEN <<SP>> \o lstrip(hint) ELSE <<>>

\* re.match(r"^(.+?)\s*\((\d+)\)\s*$", name)
parse_band_entry(name) ==
  LET s == rstrip(name) IN
  IF Len(s) >= 2 /\ IsOverride(s[Len(s)])
  THEN [name |-> rstrip(SubSeq(s, 1, Len(s) - 1)), has |-> TRUE,
        n |-> OverrideValue(s[Len(s)])]
  ELSE [name |-> name, has |-> FALSE, n |-> 0]

\* re.match(r"^(\s*-\s+)(.+?)\s*$", line): prefix and raw name of a bullet.
BulletMatch(line) ==
  LET i == CountLeadingSpaces(line)
      after == SubSeq(line, i + 2, Len(line))
      j == CountLeadingSpaces(after)
      rest == SubSeq(after, j + 1, Len(after))
  IN IF i < Len(line) /\ line[i + 1] = DASH /\ j >= 1 /\ rest # <<>>
     THEN [ok |-> TRUE, prefix |-> SubSeq(line, 1, i + 1 + j), raw |-> rstrip(rest)]
     ELSE IF i < Len(line) /\ line[i + 1] = DASH /\ j >= 2
     THEN [ok |-> TRUE, prefix |-> SubSeq(line, 1, i + j), raw |-> <<SP>>]
     ELSE [ok |-> FALSE, prefix |-> <<>>, raw |-> <<>>]

\* read_text().splitlines() of what "\n".join(lines) + "\n" wrote.
WriteLines(lines) == IF lines = <<>> THEN << <<>> >> ELSE lines

\* ------------------------------------------------------------ the document
EmptyMap == [k \in {} |-> 0]

MapPut(f, key, value) ==
  [k \in DOMAIN f \cup {key} |-> IF k = key THEN value ELSE f[k]]

\* load_bands line 117: the raw name ends with the skipped hint.
IsMarkedSkipped_eq(raw_name, sk_hint) == sk_hint # <<>> /\ raw_name = sk_hint

IsMarkedSkipped(raw_name, sk_hint) == sk_hint # <<>> /\ endswith(raw_name, sk_hint)

\* The body of load_bands' loop for one line.
LoadLine(acc, line, nf_hint, sk_hint) ==
  LET m == BulletMatch(line)
      e == parse_band_entry(
             strip_spotify_link(strip_status_hints(m.raw, nf_hint, sk_hint)))
  IN IF ~m.ok THEN acc
     ELSE [bands |-> Append(acc.bands, e.name),
           skipped |-> IF IsMarkedSkipped(m.raw, sk_hint)
                       THEN acc.skipped \cup {e.name} ELSE acc.skipped,
           overrides |-> IF e.has THEN MapPut(acc.overrides, e.name, e.n)
                         ELSE acc.overrides]

RECURSIVE LoadLines(_, _, _, _)
LoadLines(acc, lines, nf_hint, sk_hint) ==
  IF lines = <<>> THEN acc
  ELSE LoadLines(LoadLine(acc, Head(lines), nf_hint, sk_hint), Tail(lines),
                 nf_hint, sk_hint)

load_bands(lines, nf_hint, sk_hint) ==
  LoadLines([bands |-> <<>>, skipped |-> {}, overrides |-> EmptyMap],
            lines, nf_hint, sk_hint)

\* update_bands_hints' base name of a bullet line (lines 142-143).
HintBaseName(raw_name, nf_hint, sk_hint) ==
  strip_spotify_link(strip_status_hints(raw_name, nf_hint, sk_hint))

\* The body of update_bands_hints' loop for one line.
UpdateLine(line, nf_set, sk_set, nf_hint, sk_hint, urls) ==
  LET m == BulletMatch(line)
      base_name == HintBaseName(m.raw, nf_hint, sk_hint)
  IN IF ~m.ok THEN line
     ELSE IF base_name \in sk_set THEN m.prefix \o base_name \o format_hint(sk_hint)
     ELSE IF base_name \in nf_set THEN m.prefix \o base_name \o format_hint(nf_hint)
     ELSE IF base_name \in DOMAIN urls
          THEN m.prefix \o base_name \o <<SP, LinkToken(urls[base_name])>>
          ELSE m.prefix \o base_name

update_bands_hints(lines, nf_set, sk_set, nf_hint, sk_hint, urls) ==
  WriteLines([k \in 1..Len(lines) |->
                UpdateLine(lines[k], nf_set, sk_set, nf_hint, sk_hint, urls)])

\* ------------------------------------------------------------------ names
\* str.lower on the letters the model uses.
CasePairs ==
  << <<"A", "a">>, <<"B", "b">>, <<"T", "t">>,
     <<"Top 5 je Band", "top 5 je band">>,
     <<"Foo", "foo">>, <<"Bar", "bar">>, <<"FOO", "foo">> >>

lower_token(t) ==
  IF \E k \in 1..Len(CasePairs) : CasePairs[k][1] = t
  THEN CasePairs[CHOOSE k \in 1..Len(CasePairs) : CasePairs[k][1] = t][2]
  ELSE t

lower(s) == Tuple([k \in 1..Len(s) |-> lower_token(s[k])])

\* en dash, em dash, minus sign
DashGlyphs == {"\\u2013", "\\u2014", "\\u2212"}
RightQuote == "\\u2019"

\* A slip: the em dash is left as it is.
ReplaceGlyph_no_em(t) ==
  IF t \in DashGlyphs \ {"\\u2014"} THEN DASH ELSE IF t = RightQuote THEN "'" ELSE t

ReplaceGlyph(t) ==
  IF t \in DashGlyphs THEN DASH ELSE IF t = RightQuote THEN "'" ELSE t

\* re.sub(r"\s+", " ", s)
RECURSIVE CollapseSpaces(_)
CollapseSpaces(s) ==
  IF s = <<>> THEN <<>>
  ELSE IF IsSpace(Head(s)) THEN <<SP>> \o CollapseSpaces(lstrip(s))
  ELSE <<Head(s)>> \o CollapseSpaces(Tail(s))

\* re.sub(r"\s*-\s*", " - ", s); pending holds whitespace not yet emitted.
RECURSIVE SubDashes(_, _, _)
SubDashes(out, pending, rest) ==
  IF rest = <<>> THEN out \o pending
  ELSE IF IsSpace(Head(rest)) THEN SubDashes(out, Append(pending, SP), Tail(rest))
  ELSE IF Head(rest) = DASH
       THEN SubDashes(out \o <<SP, DASH, SP>>, <<>>, lstrip(Tail(rest)))
  ELSE SubDashes(out \o pending \o <<Head(rest)>>, <<>>, Tail(rest))

\* Lines 48-53, one binding per assignment to normalized.
normalize_playlist_name(name) ==
  The({ lstrip(rstrip(dashed)) :
        dashed \in { SubDashes(<<>>, <<>>, collapsed) :
          collapsed \in { CollapseSpaces(unified) :
            unified \in { Tuple([k \in 1..Len(lowered) |-> ReplaceGlyph(lowered[k])]) :
              lowered \in {lower(name)} } } } })

\* re.match(r"^\s*#\s+(.+?)\s*$", line), group(1).strip()
TitleOf(line) ==
  LET i == CountLeadingSpaces(line)
      after == SubSeq(line, i + 2, Len(line))
      j == CountLeadingSpaces(after)
      rest == SubSeq(after, j + 1, Len(after))
  IN IF i < Len(line) /\ line[i + 1] = "#" /\ j >= 1 /\ rest # <<>>
     THEN [ok |-> TRUE, title |-> rstrip(rest)]
     ELSE IF i < Len(line) /\ line[i + 1] = "#" /\ j >= 2
     THEN [ok |-> TRUE, title |-> <<>>]
     ELSE [ok |-> FALSE, title |-> <<>>]

\* markdown_path.stem
FileStem == <<"bands">>
NameSuffix == <<SP, DASH, SP, "Top 5 je Band">>

RECURSIVE FirstTitle(_)
FirstTitle(lines) ==
  IF lines = <<>> THEN <<>>
  ELSE IF TitleOf(Head(lines)).ok THEN TitleOf(Head(lines)).title
  ELSE FirstTitle(Tail(lines))

derive_playlist_name(lines) ==
  IF FirstTitle(lines) = <<>> THEN FileStem \o NameSuffix
  ELSE FirstTitle(lines) \o NameSuffix

\* ------------------------------------------------------------ the catalog
NoArtist == [id |-> "", name |-> <<>>, url |-> ""]

\* Artists the catalog search can return: an exact match of "A" in another
\* case, an exact match of "B" without a profile URL, and a near match.
Artists ==
  { [id |-> "a1", name |-> <<"a">>, url |-> "https://open.spotify.com/artist/a1"],
    [id |-> "a2", name |-> <<"B">>, url |-> ""],
    [id |-> "a3", name |-> <<"A", "B">>, url |-> "https://open.spotify.com/artist/a2"] }

SeqsUpTo(S, n) == UNION {[1..k -> S] : k \in 0..n}

MaxSearchItems == 2
SearchResponses == SeqsUpTo(Artists, MaxSearchItems)

\* A track of a top-tracks response is its uri; "" is a track without one.
TrackUris == {"t1", "t2"}
MaxTopTracks == 3
TopTrackResponses == SeqsUpTo(TrackUris \cup {""}, MaxTopTracks)

\* normalize_artist_query
normalize_artist_query(name, skipped_bands) ==
  IF name \in skipped_bands THEN <<>> ELSE name

\* pick_best_artist, lines 184-192, on the items of the search response.
RECURSIVE FirstExact(_, _)
FirstExact(items, lowered_query) ==
  IF items = <<>> THEN NoArtist
  ELSE IF lower(Head(items).name) = lowered_query THEN Head(items)
  ELSE FirstExact(Tail(items), lowered_query)

pick_best_artist(items, query) == FirstExact(items, lower(query))

\* top_tracks_for_artist, lines 197-204, on the tracks of the response.
RECURSIVE TopLoop(_, _, _)
TopLoop(uris, tracks, limit) ==
  IF tracks = <<>> THEN uris
  ELSE LET uri == Head(tracks)
           next == IF uri # "" /\ uri \notin ToSet(uris) THEN Append(uris, uri)
                   ELSE uris
       IN IF Len(next) >= limit THEN next ELSE TopLoop(next, Tail(tracks), limit)

top_tracks_for_artist(tracks, limit) == TopLoop(<<>>, tracks, limit)

\* list(dict.fromkeys(uris))
\* A slip: the last occurrence of a key is kept instead of the first.
RECURSIVE FromKeys_last(_, _)
FromKeys_last(acc, uris) ==
  IF uris = <<>> THEN acc
  ELSE FromKeys_last(Append(SelectSeq(acc, LAMBDA u : u # Head(uris)), Head(uris)),
                     Tail(uris))

RECURSIVE FromKeys(_, _)
FromKeys(acc, uris) ==
  IF uris = <<>> THEN acc
  ELSE FromKeys(IF Head(uris) \in ToSet(acc) THEN acc ELSE Append(acc, Head(uris)),
                Tail(uris))

dedupe(uris) == FromKeys(<<>>, uris)

\* random.shuffle: any order of the same elements.
Shuffles(uris) ==
  {p \in [1..Len(uris) -> ToSet(uris)] : \A u \in ToSet(uris) : \E k \in 1..Len(uris) : p[k] = u}

\* ------------------------------------------------------- playlist calls
Min(a, b) == IF a < b THEN a ELSE b

\* A slip: uris[i : i + chunk_size + 1].
RECURSIVE AddCalls_long(_, _, _, _)
AddCalls_long(playlist_id, uris, start, chunk_size) ==
  IF start >= Len(uris) THEN <<>>
  ELSE << [kind |-> "add", id |-> playlist_id,
           uris |-> SubSeq(uris, start + 1, Min(start + chunk_size + 1, Len(uris)))] >>
       \o AddCalls_long(playlist_id, uris, start + chunk_size, chunk_size)

\* range(start, len(uris), chunk_size): one playlist_add_items call each.
RECURSIVE AddCalls(_, _, _, _)
AddCalls(playlist_id, uris, start, chunk_size) ==
  IF start >= Len(uris) THEN <<>>
  ELSE << [kind |-> "add", id |-> playlist_id,
           uris |-> SubSeq(uris, start + 1, Min(start + chunk_size, Len(uris)))] >>
       \o AddCalls(playlist_id, uris, start + chunk_size, chunk_size)

add_tracks_in_chunks(playlist_id, uris, chunk_size) ==
  AddCalls(playlist_id, uris, 0, chunk_size)

\* A slip: the replace call carries uris[:99].
replace_playlist_tracks_short(playlist_id, uris, chunk_size) ==
  << [kind |-> "replace", id |-> playlist_id,
      uris |-> SubSeq(uris, 1, Min(ReplaceCap - 1, Len(uris)))] >>
  \o AddCalls(playlist_id, uris, ReplaceCap, chunk_size)

replace_playlist_tracks(playlist_id, uris, chunk_size) ==
  << [kind |-> "replace", id |-> playlist_id,
      uris |-> SubSeq(uris, 1, Min(ReplaceCap, Len(uris)))] >>
  \o AddCalls(playlist_id, uris, ReplaceCap, chunk_size)

\* What a playlist holds after the calls, as the service applies them.
RECURSIVE ApplyCalls(_, _)
ApplyCalls(tracks, cs) ==
  IF cs = <<>> THEN tracks
  ELSE ApplyCalls(IF Head(cs).kind = "replace" THEN Head(cs).uris
                  ELSE tracks \o Head(cs).uris, Tail(cs))

\* ------------------------------------------------------------ the account
user_id == "me"

NoPlaylist == [id |-> "", name |-> <<>>, owner |-> "", tracks |-> <<>>]

PlaylistUrl(id) == "https://open.spotify.com/playlist/" \o id

\* sp.current_user_playlists(limit=50, offset=offset)["items"]
Page(listing, offset) ==
  SubSeq(listing, offset + 1, Min(offset + PageLimit, Len(listing)))

\* A slip: the offset of the next page is the offset of this one.
NextOffset_stuck(offset) == offset

\* offset += 50, lines 246 and 270.
NextOffset(offset) == offset + PageLimit

\* find_existing_playlist, lines 263-266.
IsOwnNamed(playlist, user, normalized_target) ==
  /\ playlist.owner = user
  /\ normalize_playlist_name(playlist.name) = normalized_target

\* Lines 262-267: the first playlist of the page that is the user's and has
\* the name.
FirstOwnNamed(items, user, normalized_target) ==
  The({ IF \E k \in 1..Len(items) : IsOwnNamed(items[k], user, target)
        THEN items[CHOOSE k \in 1..Len(items) :
                     /\ IsOwnNamed(items[k], user, target)
                     /\ \A j \in 1..(k - 1) : ~IsOwnNamed(items[j], user, target)]
        ELSE NoPlaylist : target \in {normalized_target} })

\* delete_existing_playlists, lines 233-238.
ShouldUnfollow(playlist, user, normalized_target, seen) ==
  /\ playlist.id # ""
  /\ normalize_playlist_name(playlist.name) = normalized_target
  /\ playlist.owner = user
  /\ playlist.id \notin seen

\* The ids the for loop of lines 227-242 unfollows on one page, in order: an
\* id unfollowed earlier on the page is in seen_playlist_ids by then.
UnfollowedOnPage(items, user, normalized_target, seen) ==
  The({ LET Hit(k) == ShouldUnfollow(items[k], user, target, seen)
            First(k) == \A j \in 1..(k - 1) : items[j].id = items[k].id => ~Hit(j)
            picked == SelectSeq(Tuple([k \in 1..Len(items) |-> k]),
                                LAMBDA k : Hit(k) /\ First(k))
        IN Tuple([n \in 1..Len(picked) |-> items[picked[n]].id]) :
        target \in {normalized_target} })

Without(listing, ids) == SelectSeq(listing, LAMBDA pl : pl.id \notin ids)

\* get_playlist_track_uris, lines 277-280: the uris of one page of items.
PageUris(items) == SelectSeq(items, LAMBDA uri : uri # "")

\* main, line 434.
TracksUnchanged_ordered(existing, desired) == existing = desired

TracksUnchanged(existing, desired) == ToSet(existing) = ToSet(desired)

\* --------------------------------------------------- append_playlist_url
PlaylistLinkToken(label, url) == "[" \o label \o "](" \o url \o ")"

LinkLabels == {"Spotify Playlist", "Playlist"}

KnownPlaylistIds ==
  {"p" \o ToString(k) : k \in 1..(2 * PageLimit + 2 * MaxPlaylists + MaxEnvChanges)}
  \cup {"n" \o ToString(k) : k \in 1..2} \cup {"old"}

\* playlist_link_pattern.match(line.strip())
IsPlaylistLinkLine(line) ==
  LET t == lstrip(rstrip(line))
  IN /\ Len(t) = 1
     /\ \E label \in LinkLabels, id \in KnownPlaylistIds :
          t[1] = PlaylistLinkToken(label, PlaylistUrl(id))

append_playlist_url(lines, playlist_url) ==
  LET new == <<PlaylistLinkToken("Spotify Playlist", playlist_url)>>
      hits == {k \in 1..Len(lines) : IsPlaylistLinkLine(lines[k])}
      first == CHOOSE k \in hits : \A h \in hits : k <= h
  IN WriteLines(IF hits # {}
                THEN [k \in 1..Len(lines) |-> IF k = first THEN new ELSE lines[k]]
                ELSE lines \o << <<>>, new >>)

\* ------------------------------------------------------------------ state
VARIABLES
  mode,                 \* which program runs: "main", "annotate", "chunks", "function"
  pc,                   \* position in main
  failure,              \* the call whose error ended the run, "" if none
  doc,                  \* the lines of the bands file
  dry_run, force_recreate, cover_image, shuffle_tracks, chunk_size,
  playlist_name,
  bands, intentionally_skipped_bands, track_overrides,
  i,                    \* 1-based index of the band the loop is at
  artist,               \* the artist pick_best_artist returned for bands[i]
  all_track_uris, unresolved, not_found_exact, intentionally_skipped,
  artist_urls, deduped_track_uris,
  playlists,            \* what the service lists for the user, in order
  existing, existing_uris, playlist_id,
  results,              \* get_playlist_track_uris: items fetched so far
  offset, seen_playlist_ids, found_in_pass, deleted,
  calls,                \* the mutating calls issued, in order
  reads,                \* the catalog reads issued
  doc_writes,           \* how often the bands file was written
  outcome,              \* per band entry, how the loop classified it
  reconcile,            \* the reconciler's case, "" before it is decided
  env_changes,          \* changes of the account made by others
  first_pass, second_pass,  \* the annotator applied once and twice
  initial_doc, initial_playlists,  \* the file and the account as the run found them
  args, ret,            \* a function applied on its own: its arguments, its result
  run,                  \* 0: a run on its own; 1, 2: the first and the second of two
  first_run,            \* what the first of two runs left
  catalog               \* the answers the catalog gives in both of two runs

config == <<dry_run, force_recreate, cover_image, shuffle_tracks, chunk_size>>
resolution ==
  <<playlist_name, bands, intentionally_skipped_bands, track_overrides, i, artist,
    all_track_uris, unresolved, not_found_exact, intentionally_skipped,
    artist_urls, deduped_track_uris, reads, outcome>>
lookup == <<existing, existing_uris, results, playlist_id, reconcile>>
deletion == <<offset, seen_playlist_ids, found_in_pass, deleted>>
passes == <<first_pass, second_pass, ret>>
history == <<initial_doc, initial_playlists, args>>
rerun == <<run, first_run>>

vars ==
  <<mode, pc, failure, doc, config, resolution, playlists, lookup, deletion,
    calls, doc_writes, env_changes, passes, history, rerun, catalog>>

\* ----------------------------------------------------------------- inputs
NF == not_found_hint[1]
SK == skipped_hint[1]
L1 == LinkToken("https://open.spotify.com/artist/a1")

RECURSIVE Spaced(_)
Spaced(tokens) ==
  IF tokens = <<>> THEN <<>> ELSE <<SP, Head(tokens)>> \o Spaced(Tail(tokens))

\* "- <name>[ (n)][ <annotation>]*"
Bullet(name, suffix) == <<DASH, SP>> \o name \o Spaced(suffix)

TitleLine == <<"#", SP, "T">>
OldLinkLine == <<PlaylistLinkToken("Playlist", PlaylistUrl("old"))>>

\* Band lines as a run leaves them, or as the user marks them.
MainLines ==
  {Bullet(<<"A">>, a) : a \in {<<>>, <<NF>>, <<SK>>, <<L1>>, <<L1, SK>>}}
  \cup {Bullet(<<"B">>, a) : a \in {<<>>, <<"(1)">>, <<"(1)", SK>>}}

MainDocs == SeqsUpTo(MainLines, MaxLines)

OneBandDocs ==
  { <<TitleLine, Bullet(<<"A">>, <<>>)>>,
    <<Bullet(<<"A">>, <<>>), <<>>, OldLinkLine>> }

\* A playlist name as a user retypes it: other dash, other case.
HandEdited(name) ==
  Tuple([k \in 1..Len(name) |->
           IF name[k] = DASH THEN "\\u2014" ELSE lower_token(name[k])])

PlaylistKinds == {"mine", "foreign", "other"}

MakePlaylist(kind, position, name, tracks) ==
  [id |-> "p" \o ToString(position),
   name |-> IF kind = "other" THEN <<"x">> ELSE HandEdited(name),
   owner |-> IF kind = "foreign" THEN "someone" ELSE user_id,
   tracks |-> IF kind = "mine" THEN tracks ELSE <<>>]

MakeAccount(kinds, name, tracks) ==
  Tuple([k \in 1..Len(kinds) |-> MakePlaylist(kinds[k], k, name, tracks)])

Fillers(n) == [k \in 1..n |-> "other"]

\* The items of the playlists the user already has; "" is an item without uri.
ExistingTracks == {<<>>, <<"t1">>, <<"t2", "", "t1", "t1">>}

\* Accounts around the page size: some playlists, then 0, PageLimit - 1 or
\* PageLimit others, then some playlists.
AccountKinds ==
  {head \o Fillers(n) \o tail :
     head \in SeqsUpTo(PlaylistKinds, MaxPlaylists),
     n \in {0, PageLimit - 1, PageLimit},
     tail \in SeqsUpTo(PlaylistKinds, MaxPlaylists)}

SmallAccountKinds == {<<>>, <<"mine">>}

Config(dry, force, cover, shuffle, chunk) ==
  [dry_run |-> dry, force_recreate |-> force, cover_image |-> cover,
   shuffle_tracks |-> shuffle, chunk_size |-> chunk]

Input(d, kinds, tracks, cfg) == [doc |-> d, kinds |-> kinds, tracks |-> tracks, cfg |-> cfg]

\* Every document against an account that has the playlist, dry and not.
DocumentInputs ==
  {Input(d, <<"mine">>, <<"t2", "", "t1", "t1">>, Config(dry, FALSE, FALSE, FALSE, 2)) :
     d \in MainDocs, dry \in BOOLEAN}

\* Every account against one one-band document.
AccountInputs ==
  {Input(d, k, t, Config(FALSE, force, FALSE, FALSE, 2)) :
     d \in {<<TitleLine, Bullet(<<"A">>, <<>>)>>}, k \in AccountKinds,
     t \in ExistingTracks, force \in BOOLEAN}

\* Every configuration against the one-band documents and a small account.
ConfigInputs ==
  {Input(d, k, <<"t1">>, Config(dry, force, cover, shuffle, chunk)) :
     d \in OneBandDocs, k \in SmallAccountKinds, dry \in BOOLEAN, force \in BOOLEAN,
     cover \in BOOLEAN, shuffle \in BOOLEAN, chunk \in {1, 2}}

MainInputs == DocumentInputs \cup AccountInputs \cup ConfigInputs

track_limit == 2

\* No function is applied on its own.
NoArgs == [fn |-> ""]

\* No run came before; the catalog is not fixed.
NoRun == [playlist_id |-> "", reconcile |-> ""]
NoCatalog == [search |-> EmptyMap, top_tracks |-> EmptyMap]
SingleRun == run = 0 /\ first_run = NoRun /\ catalog = NoCatalog

\* Parts of the state before main has touched them.
LoopAtRest ==
  /\ playlist_name = <<>>
  /\ bands = <<>> /\ intentionally_skipped_bands = {} /\ track_overrides = EmptyMap
  /\ i = 1 /\ artist = NoArtist
  /\ all_track_uris = <<>> /\ unresolved = <<>>
  /\ reads = {} /\ outcome = <<>>

ReconcilerAtRest ==
  /\ existing = NoPlaylist /\ existing_uris = <<>> /\ results = 0
  /\ reconcile = ""
  /\ offset = 0 /\ seen_playlist_ids = {} /\ found_in_pass = FALSE /\ deleted = 0
  /\ doc_writes = 0 /\ env_changes = 0

\* main up to line 348: the configuration is read and valid, the file exists.
InitRuns(inputs, first, catalogs) ==
  /\ mode = "main" /\ pc = "start" /\ failure = ""
  /\ \E in \in inputs :
       /\ doc = in.doc
       /\ playlists = MakeAccount(in.kinds, derive_playlist_name(in.doc), in.tracks)
       /\ dry_run = in.cfg.dry_run
       /\ force_recreate = in.cfg.force_recreate
       /\ cover_image = in.cfg.cover_image
       /\ shuffle_tracks = in.cfg.shuffle_tracks
       /\ chunk_size = in.cfg.chunk_size
  /\ LoopAtRest /\ ReconcilerAtRest
  /\ not_found_exact = {} /\ intentionally_skipped = {} /\ artist_urls = EmptyMap
  /\ deduped_track_uris = <<>> /\ playlist_id = "" /\ calls = <<>>
  /\ first_pass = <<>> /\ second_pass = <<>>
  /\ args = NoArgs /\ ret = <<>>
  /\ run = first /\ first_run = NoRun /\ catalog \in catalogs
  /\ initial_doc = doc /\ initial_playlists = playlists

InitMain(inputs) == InitRuns(inputs, 0, {NoCatalog})

Init == InitMain(MainInputs)

\* ------------------------------------------------------------------- main
Call(kind, id, uris, ok) == [kind |-> kind, id |-> id, uris |-> uris, ok |-> ok]

Terminal == {"done", "fatal", "crashed"}

\* How the loop of lines 369-396 left one entry: its classification, the
\* profile URL of the artist found for it, the tracks it contributed.
Outcome(class, url, tracks) == [class |-> class, url |-> url, tracks |-> tracks]

\* Lines 348-361: the playlist name, the user, the bands.
Start ==
  /\ mode = "main" /\ pc = "start"
  /\ LET loaded == load_bands(doc, not_found_hint, skipped_hint)
     IN /\ bands' = loaded.bands
        /\ intentionally_skipped_bands' = loaded.skipped
        /\ track_overrides' = loaded.overrides
  /\ playlist_name' = derive_playlist_name(doc)
  /\ pc' = "resolve"
  /\ UNCHANGED <<mode, failure, doc, config, i, artist, all_track_uris, unresolved,
                 not_found_exact, intentionally_skipped, artist_urls,
                 deduped_track_uris, reads, outcome, playlists, lookup, deletion,
                 calls, doc_writes, env_changes, passes, history, rerun, catalog>>

\* Of two runs the second is given "the same catalog responses": the catalog
\* is one function from questions to answers. A run on its own takes any answer.
Answers(given, question, answer) ==
  IF run = 0 \/ question \notin DOMAIN given THEN TRUE ELSE given[question] = answer

InLoop == mode = "main" /\ pc = "resolve" /\ i <= Len(bands)

Query == normalize_artist_query(bands[i], intentionally_skipped_bands)

\* Lines 370-375: an empty query is a skipped band; nothing is asked.
ResolveSkipped ==
  /\ InLoop /\ Query = <<>>
  /\ intentionally_skipped' = intentionally_skipped \cup {bands[i]}
  /\ unresolved' = Append(unresolved, bands[i])
  /\ outcome' = Append(outcome, Outcome("IntentionallySkipped", "", <<>>))
  /\ i' = i + 1
  /\ UNCHANGED <<mode, pc, failure, doc, config, playlist_name, bands,
                 intentionally_skipped_bands, track_overrides, artist,
                 all_track_uris, not_found_exact, artist_urls, deduped_track_uris,
                 reads, playlists, lookup, deletion, calls, doc_writes,
                 env_changes, passes, history, rerun, catalog>>

\* Lines 377-386: the search answers; no exact match is a not-found band.
ResolveSearch ==
  /\ InLoop /\ Query # <<>>
  /\ \E items \in SearchResponses :
       LET found == pick_best_artist(items, Query)
       IN /\ Answers(catalog.search, Query, items)
          /\ reads' = reads \cup {[kind |-> "search", arg |-> Query]}
          /\ artist' = found
          /\ IF found = NoArtist
             THEN /\ not_found_exact' = not_found_exact \cup {bands[i]}
                  /\ unresolved' = Append(unresolved, bands[i])
                  /\ outcome' = Append(outcome, Outcome("NotFoundExact", "", <<>>))
                  /\ i' = i + 1
                  /\ UNCHANGED <<pc, artist_urls>>
             ELSE /\ artist_urls' = IF found.url # ""
                                    THEN MapPut(artist_urls, bands[i], found.url)
                                    ELSE artist_urls
                  /\ pc' = "top_tracks"
                  /\ UNCHANGED <<not_found_exact, unresolved, outcome, i>>
  /\ UNCHANGED <<mode, failure, doc, config, playlist_name, bands,
                 intentionally_skipped_bands, track_overrides, all_track_uris,
                 intentionally_skipped, deduped_track_uris, playlists, lookup,
                 deletion, calls, doc_writes, env_changes, passes, history, rerun, catalog>>

\* Line 388.
BandTrackLimit ==
  IF bands[i] \in DOMAIN track_overrides THEN track_overrides[bands[i]]
  ELSE track_limit

\* Lines 388-396: the top tracks answer.
ResolveTopTracks ==
  /\ mode = "main" /\ pc = "top_tracks"
  /\ \E tracks \in TopTrackResponses :
       LET artist_tracks == top_tracks_for_artist(tracks, BandTrackLimit)
       IN /\ Answers(catalog.top_tracks, artist.id, tracks)
          /\ reads' = reads \cup {[kind |-> "top_tracks", arg |-> bands[i]]}
          /\ IF artist_tracks = <<>>
             THEN /\ unresolved' = Append(unresolved, bands[i])
                  /\ outcome' = Append(outcome, Outcome("NoTracks", artist.url, <<>>))
                  /\ UNCHANGED all_track_uris
             ELSE /\ all_track_uris' = all_track_uris \o artist_tracks
                  /\ outcome' = Append(outcome, Outcome("Matched", artist.url, artist_tracks))
                  /\ UNCHANGED unresolved
  /\ i' = i + 1
  /\ pc' = "resolve"
  /\ UNCHANGED <<mode, failure, doc, config, playlist_name, bands,
                 intentionally_skipped_bands, track_overrides, artist,
                 not_found_exact, intentionally_skipped, artist_urls,
                 deduped_track_uris, playlists, lookup, deletion, calls,
                 doc_writes, env_changes, passes, history, rerun, catalog>>

\* Line 403: a dry run returns after the preview (line 420).
ReturnsAfterPreview_never(dry) == FALSE

ReturnsAfterPreview(dry) == dry

\* Lines 398-420: the loop is over; deduplicate, shuffle, preview.
Aggregate ==
  /\ mode = "main" /\ pc = "resolve" /\ i > Len(bands)
  /\ deduped_track_uris' \in
       IF shuffle_tracks THEN Shuffles(dedupe(all_track_uris))
       ELSE {dedupe(all_track_uris)}
  /\ pc' = IF ReturnsAfterPreview(dry_run) THEN "done" ELSE "annotate"
  /\ UNCHANGED <<mode, failure, doc, config, playlist_name, bands,
                 intentionally_skipped_bands, track_overrides, i, artist,
                 all_track_uris, unresolved, not_found_exact, intentionally_skipped,
                 artist_urls, reads, outcome, playlists, lookup, deletion, calls,
                 doc_writes, env_changes, passes, history, rerun, catalog>>

\* Line 424.
AbortsOnEmpty_never(desired) == FALSE

AbortsOnEmpty(desired) == desired = <<>>

\* Lines 422-425: the hints are written, then an empty result ends the run.
Annotate ==
  /\ mode = "main" /\ pc = "annotate"
  /\ doc' = update_bands_hints(doc, not_found_exact, intentionally_skipped,
                               not_found_hint, skipped_hint, artist_urls)
  /\ doc_writes' = doc_writes + 1
  /\ IF AbortsOnEmpty(deduped_track_uris)
     THEN pc' = "fatal" /\ failure' = "No tracks found"
     ELSE pc' = "find" /\ UNCHANGED failure
  /\ offset' = 0
  /\ UNCHANGED <<mode, config, resolution, playlists, lookup, seen_playlist_ids,
                 found_in_pass, deleted, calls, env_changes, passes, history, rerun, catalog>>

\* The playlist with this id as the service lists it now.
Listed(id) ==
  IF \E k \in 1..Len(playlists) : playlists[k].id = id
  THEN playlists[CHOOSE k \in 1..Len(playlists) : playlists[k].id = id]
  ELSE NoPlaylist

WithTracks(listing, id, tracks) ==
  Tuple([k \in 1..Len(listing) |->
           IF listing[k].id = id THEN [listing[k] EXCEPT !.tracks = tracks]
           ELSE listing[k]])

\* Lines 427-429 and 463: one page of find_existing_playlist, then the branch.
FindPage ==
  /\ mode = "main" /\ pc = "find"
  /\ \E items \in {Page(playlists, offset)} :
     \E hit \in {FirstOwnNamed(items, user_id, normalize_playlist_name(playlist_name))} :
       IF items # <<>> /\ hit = NoPlaylist /\ Len(items) >= PageLimit
       THEN /\ offset' = NextOffset(offset)
            /\ UNCHANGED <<pc, existing, reconcile>>
       ELSE /\ existing' = hit
            /\ offset' = 0
            /\ IF hit # NoPlaylist /\ ~force_recreate
               THEN pc' = "tracks" /\ UNCHANGED reconcile
               ELSE IF hit # NoPlaylist
               THEN pc' = "delete" /\ reconcile' = "ForceRecreate"
               ELSE pc' = "create" /\ reconcile' = "NoExistingPlaylist"
  /\ UNCHANGED <<mode, failure, doc, config, resolution, playlists, existing_uris,
                 results, playlist_id, seen_playlist_ids, found_in_pass, deleted,
                 calls, doc_writes, env_changes, passes, history, rerun, catalog>>

\* Lines 430-434: one page of get_playlist_track_uris, then the comparison.
TracksPage ==
  /\ mode = "main" /\ pc = "tracks"
  /\ LET tracks == Listed(existing.id).tracks
         items == SubSeq(tracks, results + 1, Min(results + TrackPageSize, Len(tracks)))
         uris == existing_uris \o PageUris(items)
     IN /\ existing_uris' = uris
        /\ IF results + TrackPageSize < Len(tracks)
           THEN /\ results' = results + TrackPageSize
                /\ UNCHANGED <<pc, playlist_id, reconcile>>
           ELSE /\ playlist_id' = existing.id
                /\ UNCHANGED results
                /\ IF TracksUnchanged(uris, deduped_track_uris)
                   THEN pc' = "cover" /\ reconcile' = "ExistingUnchanged"
                   ELSE pc' = "replace" /\ reconcile' = "ExistingNeedsUpdate"
  /\ UNCHANGED <<mode, failure, doc, config, resolution, playlists, existing,
                 deletion, calls, doc_writes, env_changes, passes, history, rerun, catalog>>

\* Line 449.
Replace ==
  /\ mode = "main" /\ pc = "replace"
  /\ LET sent == replace_playlist_tracks(playlist_id, deduped_track_uris, chunk_size)
     IN /\ calls' = calls \o [k \in 1..Len(sent) |->
                               Call(sent[k].kind, sent[k].id, sent[k].uris, TRUE)]
        /\ playlists' = WithTracks(playlists, playlist_id,
                                   ApplyCalls(Listed(playlist_id).tracks, sent))
  /\ pc' = "cover"
  /\ UNCHANGED <<mode, failure, doc, config, resolution, lookup, deletion,
                 doc_writes, env_changes, passes, history, rerun, catalog>>

\* Line 248: a pass that unfollowed something is followed by another.
Rescans_never(found) == FALSE

Rescans(found) == found

\* Lines 464, 217-251: one page of delete_existing_playlists.  The service
\* either drops an unfollowed playlist from the listing or keeps listing it.
DeletePage ==
  /\ mode = "main" /\ pc = "delete"
  /\ \E items \in {Page(playlists, offset)} :
     \E ids \in {UnfollowedOnPage(items, user_id,
                                   normalize_playlist_name(playlist_name),
                                   seen_playlist_ids)} :
     \E found \in {found_in_pass \/ ids # <<>>} :
       /\ calls' = calls \o [k \in 1..Len(ids) |-> Call("unfollow", ids[k], <<>>, TRUE)]
       /\ seen_playlist_ids' = seen_playlist_ids \cup ToSet(ids)
       /\ deleted' = deleted + Len(ids)
       /\ playlists' \in {Without(playlists, ToSet(ids)), playlists}
       /\ IF items # <<>> /\ Len(items) >= PageLimit
          THEN /\ offset' = NextOffset(offset)
               /\ found_in_pass' = found
               /\ UNCHANGED pc
          ELSE /\ offset' = 0
               /\ found_in_pass' = FALSE
               /\ pc' = IF Rescans(found) THEN "delete" ELSE "create"
  /\ UNCHANGED <<mode, failure, doc, config, resolution, lookup, doc_writes,
                 env_changes, passes, history, rerun, catalog>>

\* Line 470: create_playlist; the service lists the new playlist first.
Create ==
  /\ mode = "main" /\ pc = "create"
  /\ LET id == "n" \o ToString(
                 Cardinality({k \in 1..Len(calls) : calls[k].kind = "create"}) + 1)
     IN /\ playlist_id' = id
        /\ calls' = Append(calls, Call("create", id, <<>>, TRUE))
        /\ playlists' = <<[id |-> id, name |-> playlist_name, owner |-> user_id,
                           tracks |-> <<>>]>> \o playlists
  /\ pc' = "add"
  /\ UNCHANGED <<mode, failure, doc, config, resolution, existing, existing_uris,
                 results, reconcile, deletion, doc_writes, env_changes, passes, history, rerun, catalog>>

\* Line 471.
AddTracks ==
  /\ mode = "main" /\ pc = "add"
  /\ LET sent == add_tracks_in_chunks(playlist_id, deduped_track_uris, chunk_size)
     IN /\ calls' = calls \o [k \in 1..Len(sent) |->
                               Call(sent[k].kind, sent[k].id, sent[k].uris, TRUE)]
        /\ playlists' = WithTracks(playlists, playlist_id,
                                   ApplyCalls(Listed(playlist_id).tracks, sent))
  /\ pc' = "cover"
  /\ UNCHANGED <<mode, failure, doc, config, resolution, lookup, deletion,
                 doc_writes, env_changes, passes, history, rerun, catalog>>

\* What playlist_upload_cover_image can do: return, raise the client's
\* SpotifyException, or raise an error of another class (a connection error or
\* a timeout of the HTTP layer).
UploadOutcomes == {"ok", "SpotifyException", "error"}

\* Lines 435-436, 450-451, 473-474 and upload_cover_image: an image above the
\* limit is not sent; a SpotifyException of the upload is caught (308); an
\* error of another class is caught nowhere and ends the run.
Cover ==
  /\ mode = "main" /\ pc = "cover"
  /\ \/ /\ ~cover_image
        /\ UNCHANGED <<calls, failure>> /\ pc' = "append"
     \/ /\ cover_image
        /\ \E size \in {CoverMaxBytes, CoverMaxBytes + 1} :
             IF size > CoverMaxBytes
             THEN UNCHANGED <<calls, failure>> /\ pc' = "append"
             ELSE \E raised \in UploadOutcomes :
                    /\ calls' = Append(calls, Call("cover", playlist_id, <<>>, raised = "ok"))
                    /\ IF raised = "error"
                       THEN failure' = "playlist_upload_cover_image" /\ pc' = "crashed"
                       ELSE UNCHANGED failure /\ pc' = "append"
  /\ UNCHANGED <<mode, doc, config, resolution, playlists, lookup,
                 deletion, doc_writes, env_changes, passes, history, rerun, catalog>>

\* Lines 437, 452, 477: the playlist link goes into the file; the run ends.
AppendUrl ==
  /\ mode = "main" /\ pc = "append"
  /\ doc' = append_playlist_url(doc, PlaylistUrl(playlist_id))
  /\ doc_writes' = doc_writes + 1
  /\ pc' = "done"
  /\ UNCHANGED <<mode, failure, config, resolution, playlists, lookup, deletion,
                 calls, env_changes, passes, history, rerun, catalog>>

\* The call an uncaught SpotifyException can come from at this position.
PendingCall ==
  CASE pc = "start" -> "current_user"
    [] pc = "resolve" /\ i <= Len(bands) /\ Query # <<>> -> "search"
    [] pc = "top_tracks" -> "artist_top_tracks"
    [] pc = "find" -> "current_user_playlists"
    [] pc = "tracks" -> "playlist_tracks"
    [] pc = "replace" -> "playlist_replace_items"
    [] pc = "delete" -> "current_user_playlists"
    [] pc = "create" -> "user_playlist_create"
    [] pc = "add" /\ deduped_track_uris # <<>> -> "playlist_add_items"
    [] OTHER -> ""

\* No call of main but the cover upload sits in a try: the error ends the run.
ApiError ==
  /\ mode = "main" /\ PendingCall # ""
  /\ failure' = PendingCall
  /\ pc' = "crashed"
  /\ UNCHANGED <<mode, doc, config, resolution, playlists, lookup, deletion, calls,
                 doc_writes, env_changes, passes, history, rerun, catalog>>

Next ==
  \/ Start \/ ResolveSkipped \/ ResolveSearch \/ ResolveTopTracks \/ Aggregate
  \/ Annotate \/ FindPage \/ TracksPage \/ Replace \/ DeletePage \/ Create
  \/ AddTracks \/ Cover \/ AppendUrl \/ ApiError

Spec == Init /\ [][Next]_vars

\* ------------------------------------------ the account changed by others
\* Between two page fetches the listing is not the program's alone: the user's
\* other devices add and remove playlists and tracks.
OthersTurn ==
  /\ mode = "main" /\ pc \in {"find", "tracks", "delete"}
  /\ env_changes < MaxEnvChanges

\* A playlist of the same name and owner appears at the head of the listing.
PlaylistAppears ==
  /\ OthersTurn
  /\ playlists' = <<[id |-> "e" \o ToString(env_changes + 1), name |-> playlist_name,
                     owner |-> user_id, tracks |-> <<>>]>> \o playlists
  /\ env_changes' = env_changes + 1
  /\ UNCHANGED <<mode, pc, failure, doc, config, resolution, lookup, deletion, calls,
                 doc_writes, passes, history, rerun, catalog>>

\* The first playlist of the listing disappears; the pages shift by one.
PlaylistDisappears ==
  /\ OthersTurn /\ playlists # <<>>
  /\ playlists' = Tail(playlists)
  /\ env_changes' = env_changes + 1
  /\ UNCHANGED <<mode, pc, failure, doc, config, resolution, lookup, deletion, calls,
                 doc_writes, passes, history, rerun, catalog>>

\* The playlist whose items are being fetched gets one more item.
TrackAppears ==
  /\ OthersTurn /\ pc = "tracks" /\ Listed(existing.id) # NoPlaylist
  /\ playlists' = WithTracks(playlists, existing.id,
                             Append(Listed(existing.id).tracks, "t2"))
  /\ env_changes' = env_changes + 1
  /\ UNCHANGED <<mode, pc, failure, doc, config, resolution, lookup, deletion, calls,
                 doc_writes, passes, history, rerun, catalog>>

LiveAccountKinds ==
  {head \o Fillers(n) \o tail :
     head \in {<<>>, <<"mine">>}, n \in {0, PageLimit},
     tail \in {<<>>, <<"mine">>}}

LiveInputs ==
  {Input(<<Bullet(<<"B">>, <<SK>>), Bullet(<<"A">>, <<>>)>>, k,
         <<"t2", "", "t1", "t1">>, Config(FALSE, force, FALSE, FALSE, 2)) :
     k \in LiveAccountKinds, force \in BOOLEAN}

LiveNext == Next \/ PlaylistAppears \/ PlaylistDisappears \/ TrackAppears

\* A loop that can fetch its next page does fetch it: the calls are
\* synchronous and the program has one thread.
LiveSpec ==
  /\ InitMain(LiveInputs) /\ [][LiveNext]_vars
  /\ WF_vars(FindPage) /\ WF_vars(TracksPage) /\ WF_vars(DeletePage)

\* ------------------------------------------------------ one run, then another
\* The program is started again on the file and the account as its first run
\* left them: every variable of main is fresh, the catalog answers as before.
Rerun ==
  /\ mode = "main" /\ run = 1 /\ pc = "done" /\ ~dry_run
  /\ run' = 2
  /\ first_run' = [playlist_id |-> playlist_id, reconcile |-> reconcile]
  /\ pc' = "start"
  /\ playlist_name' = <<>>
  /\ bands' = <<>> /\ intentionally_skipped_bands' = {} /\ track_overrides' = EmptyMap
  /\ i' = 1 /\ artist' = NoArtist
  /\ all_track_uris' = <<>> /\ unresolved' = <<>>
  /\ reads' = {} /\ outcome' = <<>>
  /\ not_found_exact' = {} /\ intentionally_skipped' = {} /\ artist_urls' = EmptyMap
  /\ deduped_track_uris' = <<>>
  /\ existing' = NoPlaylist /\ existing_uris' = <<>> /\ results' = 0
  /\ reconcile' = "" /\ playlist_id' = ""
  /\ offset' = 0 /\ seen_playlist_ids' = {} /\ found_in_pass' = FALSE /\ deleted' = 0
  /\ calls' = <<>> /\ doc_writes' = 0
  /\ initial_doc' = doc /\ initial_playlists' = playlists
  /\ UNCHANGED <<mode, failure, doc, config, playlists, env_changes, passes, args,
                 catalog>>

\* First runs: a band alone, a band beside a skipped one, and a band beside
\* one skipped with an override, on an account with or without the playlist.
RerunDocs ==
  { <<TitleLine, Bullet(<<"A">>, <<>>)>>,
    <<Bullet(<<"B">>, <<SK>>), Bullet(<<"A">>, <<L1>>)>>,
    <<Bullet(<<"B">>, <<"(1)", SK>>), Bullet(<<"A">>, <<>>)>> }

RerunInputs ==
  {Input(d, k, <<"t1">>, Config(FALSE, force, FALSE, FALSE, 2)) :
     d \in RerunDocs, k \in SmallAccountKinds, force \in BOOLEAN}

ArtistOf(id) == CHOOSE a \in Artists : a.id = id

\* Catalogs: A is found at once, after a near match, or not at all; B is
\* found or not; each artist has some top tracks or none.
RerunCatalogs ==
  {[search |-> [q \in {<<"A">>, <<"B">>} |-> IF q = <<"A">> THEN sa ELSE sb],
    top_tracks |-> [id \in {"a1", "a2", "a3"} |->
                      IF id = "a1" THEN ta ELSE IF id = "a2" THEN tb ELSE <<>>]] :
     sa \in {<<ArtistOf("a1")>>, <<ArtistOf("a3"), ArtistOf("a1")>>, <<>>},
     sb \in {<<ArtistOf("a2")>>, <<>>},
     ta \in {<<"t1">>, <<"t2", "", "t1">>},
     tb \in {<<"t2">>, <<>>}}

RerunNext == Next \/ Rerun

RerunSpec == InitRuns(RerunInputs, 1, RerunCatalogs) /\ [][RerunNext]_vars

\* ------------------------------------------- the chunked calls on their own
\* uris u1 .. un
Uris(n) == [k \in 1..n |-> "u" \o ToString(k)]

ChunkLengths ==
  0..MaxChunkTracks
  \cup (ReplaceCap - MaxChunkTracks)..(ReplaceCap + 2 * MaxChunkTracks)

ChunkSizes == 1..MaxChunkSize \cup {ReplaceCap}

InitChunks ==
  /\ mode = "chunks" /\ pc = "idle" /\ failure = ""
  /\ deduped_track_uris \in {Uris(n) : n \in ChunkLengths}
  /\ chunk_size \in ChunkSizes
  /\ playlist_id = "p1" /\ calls = <<>>
  /\ doc = <<>> /\ playlists = <<>>
  /\ dry_run = FALSE /\ force_recreate = FALSE /\ cover_image = FALSE
  /\ shuffle_tracks = FALSE
  /\ LoopAtRest /\ ReconcilerAtRest
  /\ not_found_exact = {} /\ intentionally_skipped = {} /\ artist_urls = EmptyMap
  /\ first_pass = <<>> /\ second_pass = <<>>
  /\ args = NoArgs /\ ret = <<>>
  /\ SingleRun
  /\ initial_doc = <<>> /\ initial_playlists = <<>>

ReplaceTracks ==
  /\ mode = "chunks" /\ pc = "idle"
  /\ LET sent == replace_playlist_tracks(playlist_id, deduped_track_uris, chunk_size)
     IN calls' = [k \in 1..Len(sent) |->
                    Call(sent[k].kind, sent[k].id, sent[k].uris, TRUE)]
  /\ pc' = "replaced"
  /\ UNCHANGED <<mode, failure, doc, config, resolution, playlists, lookup, deletion,
                 doc_writes, env_changes, passes, history, rerun, catalog>>

AddInChunks ==
  /\ mode = "chunks" /\ pc = "idle"
  /\ LET sent == add_tracks_in_chunks(playlist_id, deduped_track_uris, chunk_size)
     IN calls' = [k \in 1..Len(sent) |->
                    Call(sent[k].kind, sent[k].id, sent[k].uris, TRUE)]
  /\ pc' = "added"
  /\ UNCHANGED <<mode, failure, doc, config, resolution, playlists, lookup, deletion,
                 doc_writes, env_changes, passes, history, rerun, catalog>>

NextChunks == ReplaceTracks \/ AddInChunks

SpecChunks == InitChunks /\ [][NextChunks]_vars

\* --------------------------------------------- the annotator on its own
AnnotatedNames == {<<"A">>, <<>>}

AnnotateLines ==
  {Bullet(<<"A">>, a) : a \in SeqsUpTo({NF, SK, L1, "(1)"}, MaxAnnotations)}
  \cup {Bullet(<<>>, <<SK>>), <<DASH, SP, NF>>, <<DASH, SP, SP>>, TitleLine}
  \cup {Bullet(<<"A">>, <<NF, NF, NF>>), Bullet(<<"A">>, <<SK, NF, L1>>)}

AnnotateDocs ==
  {<<>>} \cup {<<line>> : line \in AnnotateLines}
  \cup {<<TitleLine, line, <<>>, OldLinkLine>> : line \in AnnotateLines}

UrlMaps ==
  {EmptyMap} \cup {[n \in {name} |-> u] : name \in AnnotatedNames, u \in ArtistUrls}

InitAnnotate ==
  /\ mode = "annotate" /\ pc = "idle" /\ failure = ""
  /\ doc \in AnnotateDocs
  /\ not_found_exact \in SUBSET AnnotatedNames
  /\ intentionally_skipped \in SUBSET AnnotatedNames
  /\ artist_urls \in UrlMaps
  /\ deduped_track_uris = <<>> /\ chunk_size = 1
  /\ playlist_id = "" /\ calls = <<>> /\ playlists = <<>>
  /\ dry_run = FALSE /\ force_recreate = FALSE /\ cover_image = FALSE
  /\ shuffle_tracks = FALSE
  /\ LoopAtRest /\ ReconcilerAtRest
  /\ first_pass = <<>> /\ second_pass = <<>>
  /\ args = NoArgs /\ ret = <<>>
  /\ SingleRun
  /\ initial_doc = doc /\ initial_playlists = <<>>

AnnotateOnce ==
  /\ mode = "annotate" /\ pc = "idle"
  /\ first_pass' = update_bands_hints(doc, not_found_exact, intentionally_skipped,
                                      not_found_hint, skipped_hint, artist_urls)
  /\ pc' = "once"
  /\ UNCHANGED <<mode, failure, doc, config, resolution, playlists, lookup, deletion,
                 calls, doc_writes, env_changes, second_pass, ret, history, rerun, catalog>>

AnnotateTwice ==
  /\ mode = "annotate" /\ pc = "once"
  /\ second_pass' = update_bands_hints(first_pass, not_found_exact,
                                       intentionally_skipped, not_found_hint,
                                       skipped_hint, artist_urls)
  /\ pc' = "twice"
  /\ UNCHANGED <<mode, failure, doc, config, resolution, playlists, lookup, deletion,
                 calls, doc_writes, env_changes, first_pass, ret, history, rerun, catalog>>

NextAnnotate == AnnotateOnce \/ AnnotateTwice

SpecAnnotate == InitAnnotate /\ [][NextAnnotate]_vars

\* ------------------------------------------- the pure functions on their own
\* The limits main passes at line 389: TOP_TRACKS_PER_ARTIST, or the n of a
\* line's "(n)".
PassedLimits ==
  {track_limit} \cup {OverrideValue(OverrideTokens[k]) : k \in 1..Len(OverrideTokens)}

TopTracksArgs ==
  {[fn |-> "top_tracks_for_artist", tracks |-> t, limit |-> n] :
     t \in TopTrackResponses, n \in PassedLimits}

\* The lists the bands contribute, in the order of the loop; the two lists of
\* the example among them.
MaxBandTracks == 2
DedupeUris == {"a", "b", "c", "d"}
BandTrackLists ==
  {<<x, y>> : x, y \in SeqsUpTo(DedupeUris, MaxBandTracks)}
    \cup {<<(<<"a", "b", "a", "c">>), (<<"b", "d">>)>>}

DedupeArgs == {[fn |-> "dedupe", lists |-> l] : l \in BandTrackLists}

\* all_track_uris after the loop has extended it by each list (396).
RECURSIVE Extended(_)
Extended(lists) ==
  IF lists = <<>> THEN <<>> ELSE Head(lists) \o Extended(Tail(lists))

\* Playlist names: short ones over words, spaces and dashes, and the two of
\* the example.
MaxNameLen == 3
NameTokens == {"Foo", "foo", SP, DASH, "\\u2014"}
FooBar == <<"Foo", SP, "\\u2014", SP, "Bar">>
PlaylistNames ==
  SeqsUpTo(NameTokens, MaxNameLen) \cup {FooBar, <<"foo", SP, DASH, SP, "bar">>}

NormalizeArgs == {[fn |-> "normalize_playlist_name", name |-> n] : n \in PlaylistNames}

\* Documents as append_playlist_url finds them: titles, bullets, blank lines
\* and playlist-link lines of an earlier run or written by hand.
MaxDocLines == 3
LinkDocLines ==
  {TitleLine, <<>>, Bullet(<<"A">>, <<>>), OldLinkLine,
   <<PlaylistLinkToken("Spotify Playlist", PlaylistUrl("p1"))>>,
   <<SP, PlaylistLinkToken("Playlist", PlaylistUrl("p1")), SP>>}

AppendUrlArgs ==
  {[fn |-> "append_playlist_url", lines |-> WriteLines(d), url |-> PlaylistUrl(id)] :
     d \in SeqsUpTo(LinkDocLines, MaxDocLines), id \in {"p1", "n1"}}

FunctionArgs == TopTracksArgs \cup DedupeArgs \cup NormalizeArgs \cup AppendUrlArgs

InitFunctions ==
  /\ mode = "function" /\ pc = "idle" /\ failure = ""
  /\ args \in FunctionArgs /\ ret = <<>>
  /\ SingleRun
  /\ doc = <<>> /\ playlists = <<>>
  /\ dry_run = FALSE /\ force_recreate = FALSE /\ cover_image = FALSE
  /\ shuffle_tracks = FALSE /\ chunk_size = 1
  /\ LoopAtRest /\ ReconcilerAtRest
  /\ not_found_exact = {} /\ intentionally_skipped = {} /\ artist_urls = EmptyMap
  /\ deduped_track_uris = <<>> /\ playlist_id = "" /\ calls = <<>>
  /\ first_pass = <<>> /\ second_pass = <<>>
  /\ initial_doc = <<>> /\ initial_playlists = <<>>

\* What an application leaves alone.
Returned ==
  /\ pc' = "returned"
  /\ UNCHANGED <<mode, failure, doc, config, resolution, playlists, lookup, deletion,
                 calls, doc_writes, env_changes, first_pass, second_pass, history, rerun, catalog>>

ApplyTopTracks ==
  /\ mode = "function" /\ pc = "idle" /\ args.fn = "top_tracks_for_artist"
  /\ ret' = top_tracks_for_artist(args.tracks, args.limit)
  /\ Returned

ApplyDedupe ==
  /\ mode = "function" /\ pc = "idle" /\ args.fn = "dedupe"
  /\ ret' = dedupe(Extended(args.lists))
  /\ Returned

ApplyNormalize ==
  /\ mode = "function" /\ pc = "idle" /\ args.fn = "normalize_playlist_name"
  /\ ret' = normalize_playlist_name(args.name)
  /\ Returned

ApplyAppendUrl ==
  /\ mode = "function" /\ pc = "idle" /\ args.fn = "append_playlist_url"
  /\ ret' = append_playlist_url(args.lines, args.url)
  /\ Returned

NextFunctions == ApplyTopTracks \/ ApplyDedupe \/ ApplyNormalize \/ ApplyAppendUrl

SpecFunctions == InitFunctions /\ [][NextFunctions]_vars

\* ----------------------------------------------------------------- claims
CallsOf(kinds) == SelectSeq(calls, LAMBDA c : c.kind \in kinds)

PlaylistMutations == CallsOf({"create", "replace", "add", "unfollow"})

\* The loop of lines 369-396 is over and D is computed.
LoopOver ==
  \/ pc \in {"annotate", "fatal", "find", "tracks", "replace", "delete", "create",
             "add", "cover", "append", "done"}
  \/ pc = "crashed" /\ failure \notin {"current_user", "search", "artist_top_tracks"}

\* C1: a dry run issues no mutating call (create, replace, add, unfollow,
\* cover upload), never writes the bands file, and never gets past the
\* resolution loop: the catalog is only searched and asked for top tracks.
C1_DryRunMutatesNothing ==
  (mode = "main" /\ dry_run) =>
    /\ calls = <<>>
    /\ doc_writes = 0 /\ doc = initial_doc
    /\ playlists = initial_playlists
    /\ pc \in {"start", "resolve", "top_tracks", "done", "crashed"}
    /\ \A r \in reads : r.kind \in {"search", "top_tracks"}

C1_Witness ==
  /\ dry_run /\ pc = "done" /\ deduped_track_uris # <<>>
  /\ \E r \in reads : r.kind = "top_tracks"
  /\ initial_playlists # <<>>

\* C2: when D is empty after the loop of a run that is not dry, the run ends
\* with the fatal error and no create, replace, add or unfollow call is
\* issued, whatever the account holds and whether or not force_recreate is set.
C2_EmptyResultAborts ==
  (mode = "main" /\ ~dry_run /\ LoopOver /\ deduped_track_uris = <<>>) =>
    /\ pc \in {"annotate", "fatal"}
    /\ PlaylistMutations = <<>>
    /\ playlists = initial_playlists

C2_Witness ==
  /\ pc = "fatal" /\ force_recreate /\ bands # <<>>
  /\ \E k \in 1..Len(playlists) :
       IsOwnNamed(playlists[k], user_id, normalize_playlist_name(playlist_name))

\* C3: an API error of the artist search or of the top-tracks call does not
\* end the run.
C3_CatalogErrorIsNotFatal ==
  ~(pc = "crashed" /\ failure \in {"search", "artist_top_tracks"})

\* The existing playlist was found, force_recreate is off and all its track
\* uris are fetched.
Compared ==
  /\ mode = "main" /\ existing # NoPlaylist /\ ~force_recreate
  /\ playlist_id = existing.id /\ playlist_id # ""

OwnNamedBefore ==
  {initial_playlists[k].id : k \in
     {j \in 1..Len(initial_playlists) :
        IsOwnNamed(initial_playlists[j], user_id,
                   normalize_playlist_name(playlist_name))}}

Unfollowed(cs) == {cs[k].id : k \in {j \in 1..Len(cs) : cs[j].kind = "unfollow"}}

\* C6: with force_recreate and playlists of that name owned by the user, all
\* of them are unfollowed before create_playlist is called, nothing else is
\* unfollowed, and exactly one playlist is created.
C6_ForceRecreateUnfollowsAll ==
  (mode = "main" /\ force_recreate /\ (calls # <<>> \/ pc = "done")) =>
    /\ Unfollowed(calls) \subseteq OwnNamedBefore
    /\ Len(CallsOf({"create"})) <= 1
    /\ \A k \in 1..Len(calls) :
         calls[k].kind = "create" =>
           OwnNamedBefore \subseteq Unfollowed(SubSeq(calls, 1, k - 1))
    /\ (pc = "done" /\ ~dry_run /\ OwnNamedBefore # {}) =>
         Len(CallsOf({"create"})) = 1 /\ reconcile = "ForceRecreate"

C6_Witness ==
  /\ force_recreate /\ pc = "done"
  /\ Len(initial_playlists) > PageLimit
  /\ initial_playlists[1].id \in Unfollowed(calls)
  /\ initial_playlists[PageLimit + 1].id \in Unfollowed(calls)
  /\ Len(CallsOf({"create"})) = 1

\* The bullet lines of a file, in order.
BulletLines(lines) == SelectSeq(lines, LAMBDA line : BulletMatch(line).ok)

\* C9: after a run that is not dry, the line of every band entry carries the
\* annotation of its classification: the skipped hint, the not-found hint, or
\* the link of the artist found for it when that artist has a profile URL.
C9_LinesAnnotatedByOutcome ==
  (mode = "main" /\ doc_writes >= 1) =>
    /\ Len(BulletLines(doc)) = Len(bands)
    /\ \A e \in 1..Len(bands) :
         LET line == BulletLines(doc)[e]
         IN /\ outcome[e].class = "IntentionallySkipped" => endswith(line, skipped_hint)
            /\ outcome[e].class = "NotFoundExact" => endswith(line, not_found_hint)
            /\ outcome[e].url # "" => endswith(line, <<LinkToken(outcome[e].url)>>)

\* The entries whose line of the file ends with the skipped hint.
MarkedEntries ==
  {e \in 1..Len(BulletLines(initial_doc)) :
     endswith(rstrip(BulletLines(initial_doc)[e]), skipped_hint)}

\* C10: an entry whose line ends with the skipped hint is never searched nor
\* asked for top tracks, is classified intentionally skipped and adds no track.
C10_MarkedEntriesAreSkipped ==
  (mode = "main" /\ pc # "start" /\ failure # "current_user") =>
    \A e \in MarkedEntries :
      /\ e <= Len(bands)
      /\ \A r \in reads : r.arg # bands[e]
      /\ e <= Len(outcome) =>
           /\ outcome[e].class = "IntentionallySkipped"
           /\ outcome[e].tracks = <<>>
           /\ bands[e] \in intentionally_skipped
      /\ (pc = "resolve" /\ i > e) => e <= Len(outcome)

C10_Witness ==
  /\ pc = "done" /\ Len(bands) = 2 /\ MarkedEntries = {2}
  /\ bands[2] \in DOMAIN track_overrides
  /\ outcome[1].class = "Matched"

\* C5: no playlist_add_items call of add_tracks_in_chunks or of
\* replace_playlist_tracks carries more than chunk_size uris, and the
\* playlist_replace_items call carries at most 100.
C5_CallsWithinCaps ==
  mode = "chunks" =>
    \A k \in 1..Len(calls) :
      /\ calls[k].kind = "add" => Len(calls[k].uris) <= chunk_size
      /\ calls[k].kind = "replace" => Len(calls[k].uris) <= 100

C5_Witness ==
  /\ mode = "chunks" /\ pc = "replaced"
  /\ Len(deduped_track_uris) > ReplaceCap + chunk_size
  /\ Len(calls) >= 3
  /\ Len(calls[1].uris) = 100
  /\ Len(calls[2].uris) = chunk_size

\* C7: the page loop of find_existing_playlist, that of
\* get_playlist_track_uris, and the page loop and the rescan loop of
\* delete_existing_playlists each come to an end, also when playlists and
\* tracks appear and disappear between two page fetches (MaxEnvChanges times
\* in a run) and when the service keeps listing a playlist that was unfollowed.
C7_PaginationTerminates ==
  /\ (mode = "main" /\ pc = "find") ~> (pc # "find")
  /\ (mode = "main" /\ pc = "tracks") ~> (pc # "tracks")
  /\ (mode = "main" /\ pc = "delete") ~> (pc # "delete")

\* The deletion ended although the listing changed under it and still shows
\* a playlist it unfollowed.
C7_Witness ==
  /\ mode = "main" /\ pc = "create" /\ reconcile = "ForceRecreate"
  /\ env_changes > 0
  /\ deleted >= 2
  /\ \E k \in 1..Len(playlists) : playlists[k].id \in seen_playlist_ids

\* C8: update_bands_hints applied to its own output, with the same result
\* sets, URLs and hint texts, leaves the file as the first application wrote it.
C8_AnnotatorIdempotent ==
  (mode = "annotate" /\ pc = "twice") => second_pass = first_pass

\* s without the elements for which Keep is false keeps the order of s.
RECURSIVE IsSubsequence(_, _)
IsSubsequence(sub, s) ==
  IF sub = <<>> THEN TRUE
  ELSE IF s = <<>> THEN FALSE
  ELSE IF Head(sub) = Head(s) THEN IsSubsequence(Tail(sub), Tail(s))
  ELSE IsSubsequence(sub, Tail(s))

NoDuplicate(s) == Cardinality(ToSet(s)) = Len(s)

\* C11: top_tracks_for_artist returns at most limit uris, none twice, in the
\* order of the catalog's answer, for the default limit and for every n of a
\* "(n)" suffix.
C11_TopTracksWithinLimit ==
  (mode = "function" /\ pc = "returned" /\ args.fn = "top_tracks_for_artist") =>
    /\ Len(ret) <= args.limit
    /\ NoDuplicate(ret)
    /\ IsSubsequence(ret, args.tracks)

FirstIndex(s, x) == CHOOSE k \in 1..Len(s) : s[k] = x /\ \A j \in 1..(k - 1) : s[j] # x

\* C12: the deduplicated list holds every contributed uri once, at the rank of
\* its first occurrence in band order then catalog order; [a,b,a,c] and [b,d]
\* give [a,b,c,d].
C12_DedupeKeepsFirstOccurrence ==
  (mode = "function" /\ pc = "returned" /\ args.fn = "dedupe") =>
    LET all == Extended(args.lists)
    IN /\ NoDuplicate(ret)
       /\ ToSet(ret) = ToSet(all)
       /\ \A p, q \in 1..Len(ret) :
            p < q => FirstIndex(all, ret[p]) < FirstIndex(all, ret[q])
       /\ (args.lists = <<(<<"a", "b", "a", "c">>), (<<"b", "d">>)>>
             => ret = <<"a", "b", "c", "d">>)

C12_Witness ==
  /\ mode = "function" /\ pc = "returned" /\ args.fn = "dedupe"
  /\ args.lists = <<(<<"a", "b", "a", "c">>), (<<"b", "d">>)>>
  /\ ret = <<"a", "b", "c", "d">>

\* C14: a failed cover upload never ends the run: whether the image is above
\* 256 KB or the upload call raises, the run goes on to write the playlist link.
C14_CoverFailureNeverAborts ==
  ~(mode = "main" /\ pc = "crashed" /\ failure = "playlist_upload_cover_image")

\* The same name written otherwise: in upper case, with another dash glyph,
\* with spaces added around each dash, with the spaces around dashes removed.
Upper(name) ==
  [k \in 1..Len(name) |->
     IF \E j \in 1..Len(CasePairs) : CasePairs[j][2] = name[k]
     THEN CasePairs[CHOOSE j \in 1..Len(CasePairs) : CasePairs[j][2] = name[k]][1]
     ELSE name[k]]

WithGlyph(name, g) ==
  [k \in 1..Len(name) |-> IF name[k] \in DashGlyphs \cup {DASH} THEN g ELSE name[k]]

IsDash(t) == t \in DashGlyphs \cup {DASH}

RECURSIVE SpacedOut(_)
SpacedOut(name) ==
  IF name = <<>> THEN <<>>
  ELSE IF IsDash(Head(name)) THEN <<SP, Head(name), SP>> \o SpacedOut(Tail(name))
  ELSE <<Head(name)>> \o SpacedOut(Tail(name))

RECURSIVE Tightened(_)
Tightened(name) ==
  IF name = <<>> THEN <<>>
  ELSE IF IsSpace(Head(name)) /\ Len(lstrip(name)) > 0 /\ IsDash(Head(lstrip(name)))
       THEN Tightened(lstrip(name))
  ELSE IF IsDash(Head(name)) THEN <<Head(name)>> \o Tightened(lstrip(Tail(name)))
  ELSE <<Head(name)>> \o Tightened(Tail(name))

Rewritings(name) ==
  {Tuple(Upper(name)), lower(name), SpacedOut(name), Tightened(name)}
    \cup {Tuple(WithGlyph(name, g)) : g \in DashGlyphs \cup {DASH}}

\* C15: normalize_playlist_name is idempotent, and gives the same result for
\* a name rewritten in another case, with another dash glyph or with other
\* whitespace around its dashes; "Foo — Bar" and "foo - bar" agree.
C15_NormalizeIdempotentInsensitive ==
  (mode = "function" /\ pc = "returned" /\ args.fn = "normalize_playlist_name") =>
    /\ normalize_playlist_name(ret) = ret
    /\ \A v \in Rewritings(args.name) : normalize_playlist_name(v) = ret
    /\ (args.name = FooBar => ret = normalize_playlist_name(<<"foo", SP, DASH, SP, "bar">>))

C15_Witness ==
  /\ mode = "function" /\ pc = "returned" /\ args.fn = "normalize_playlist_name"
  /\ args.name = FooBar
  /\ ret = <<"foo", SP, DASH, SP, "bar">>

\* The uris of the calls, one after the other.
RECURSIVE Sent(_)
Sent(cs) == IF cs = <<>> THEN <<>> ELSE Head(cs).uris \o Sent(Tail(cs))

\* C16: the uris sent by add_tracks_in_chunks to a new playlist, and those
\* sent by replace_playlist_tracks to an existing one, are in call order
\* exactly the desired list, whatever its length and the chunk size: the
\* update is one replace call followed by add calls only, the creation is add
\* calls only, all to the same playlist, which then holds exactly that list.
C16_ChunksSendExactlyD ==
  (mode = "chunks" /\ pc \in {"added", "replaced"}) =>
    /\ Sent(calls) = deduped_track_uris
    /\ \A k \in 1..Len(calls) :
         /\ calls[k].id = playlist_id
         /\ calls[k].kind = IF pc = "replaced" /\ k = 1 THEN "replace" ELSE "add"
    /\ pc = "replaced" => Len(calls) >= 1

C16_Witness ==
  /\ mode = "chunks" /\ pc = "replaced"
  /\ Len(deduped_track_uris) = ReplaceCap + chunk_size + 1
  /\ Len(calls) = 3
  /\ Sent(calls) = deduped_track_uris

\* The annotations a line carries: hints and artist links.
IsAnnotation(t) == t = NF \/ t = SK \/ IsArtistLink(t)

Annotations(line) == SelectSeq(line, IsAnnotation)

\* C17: after update_bands_hints every bullet line carries at most one
\* annotation among the skipped hint, the not-found hint and the artist link,
\* whatever annotations the line carried before.
C17_AtMostOneAnnotation ==
  (mode = "annotate" /\ pc = "once") =>
    \A k \in 1..Len(first_pass) :
      BulletMatch(first_pass[k]).ok => Len(Annotations(first_pass[k])) <= 1

LinkLines(lines) == {k \in 1..Len(lines) : IsPlaylistLinkLine(lines[k])}

\* C18: after append_playlist_url the document holds at most one playlist-link
\* line: a line matching the pattern is replaced in place, the line count and
\* the other lines unchanged; without one, a blank line and the link line are
\* appended; a second call with the same URL changes nothing.
C18_AtMostOneLinkLine ==
  (mode = "function" /\ pc = "returned" /\ args.fn = "append_playlist_url") =>
    LET new == <<PlaylistLinkToken("Spotify Playlist", args.url)>>
    IN /\ Cardinality(LinkLines(ret)) <= 1
       /\ LinkLines(args.lines) # {} =>
            /\ Len(ret) = Len(args.lines)
            /\ \E k \in LinkLines(args.lines) :
                 /\ ret[k] = new
                 /\ \A j \in 1..Len(ret) : j # k => ret[j] = args.lines[j]
       /\ LinkLines(args.lines) = {} => ret = args.lines \o << <<>>, new >>
       /\ append_playlist_url(ret, args.url) = ret

\* The classifications that hold of entry e once the loop is over: those of
\* the result sets its name is in, and what the loop did with the entry itself.
ClassesOf(e) ==
  {c \in {"IntentionallySkipped", "NotFoundExact", "NoTracks", "Matched"} :
     \/ c = "IntentionallySkipped" /\ bands[e] \in intentionally_skipped
     \/ c = "NotFoundExact" /\ bands[e] \in not_found_exact
     \/ c \in {"NoTracks", "Matched"} /\ outcome[e].class = c}

Contributed == {e \in 1..Len(bands) : outcome[e].tracks # <<>>}

\* C19: when the resolution loop is over every entry has exactly one
\* classification: the skipped and the not-found set are disjoint, an
\* unresolved entry is in exactly one of skipped, not found and no tracks, and
\* len(bands) - len(unresolved) is the number of entries that contributed tracks.
C19_OneClassificationPerEntry ==
  (mode = "main" /\ LoopOver /\ Len(outcome) = Len(bands)) =>
    /\ intentionally_skipped \cap not_found_exact = {}
    /\ \A e \in 1..Len(bands) : Cardinality(ClassesOf(e)) = 1
    /\ Len(bands) - Len(unresolved) = Cardinality(Contributed)

OwnNamedNow ==
  {k \in 1..Len(playlists) :
     IsOwnNamed(playlists[k], user_id, normalize_playlist_name(playlist_name))}

\* C13: after a run that was not dry, ended well and did not force a
\* recreation, a second run on the same catalog answers and the untouched
\* account issues no create, replace, add or unfollow call, finds the playlist
\* of the first run, ends as ExistingUnchanged, and the user owns exactly one
\* playlist of that name.
C13_RerunIsIdempotent ==
  (mode = "main" /\ run = 2 /\ ~force_recreate) =>
    /\ PlaylistMutations = <<>>
    /\ pc # "fatal"
    /\ pc \in {"cover", "append", "done"} =>
         /\ reconcile = "ExistingUnchanged"
         /\ playlist_id = first_run.playlist_id
         /\ Cardinality(OwnNamedNow) = 1

\* C20: an entry whose line ends with the skipped hint before a run that is
\* not dry has a line that ends with the skipped hint once the run has
\* rewritten the file, whether the entry is a plain name, carries an override
\* or an artist link; the next run skips it again.
C20_SkippedMarkIsStable ==
  (mode = "main" /\ ~dry_run /\ doc_writes >= 1) =>
    \A e \in MarkedEntries :
      /\ e <= Len(BulletLines(doc))
      /\ endswith(rstrip(BulletLines(doc)[e]), skipped_hint)

====
